---- MODULE Spec2Model ----
(***************************************************************************)
(* task2wechat: the scheduled-task execution engine of src/worker.js       *)
(* (the same engine is repeated in src/functions/_worker.js).              *)
(*                                                                         *)
(* Time is counted in whole days of a non-leap year, day 1 = 1 January.    *)
(* The Workers runtime runs in UTC, so Date.getDate/setDate/setMonth and   *)
(* toISOString agree on the calendar; ISO strings of equal width compare   *)
(* as the instants they denote, so the SQL comparison on the execute_time  *)
(* TEXT column is the comparison of day numbers.                           *)
(***************************************************************************)
EXTENDS Integers, Sequences, FiniteSets, TLC

\* ------------------------------------------------------------------ bounds
\* stored tasks, tick invocations, largest retry_config.max_retry, and the
\* number of times a failing D1 statement fails
NumTasks == 2
MaxTicks == 2
MaxRetry == 2
MaxKeyLen == 4

MaxApiCalls == 1

MaxFaults == 1

TaskIds == 1..NumTasks
TickIds == 1..MaxTicks

\* The values new Date() can have at a tick: 31 January and 1 February.
TickTimes == {31, 32}

\* a property that is not there (retry_config.max_retry)
Undefined == -1

\* ---------------------------------------------------------------- calendar
DaysIn(m) ==
  CASE m = 2 -> 28
    [] m \in {4, 6, 9, 11} -> 30
    [] OTHER -> 31

RECURSIVE FirstDay(_)
FirstDay(m) ==
  IF m <= 1 THEN 1 ELSE FirstDay(m - 1) + DaysIn(m - 1)

getMonth(t) ==
  CHOOSE m \in 1..12 : FirstDay(m) <= t /\ t < FirstDay(m + 1)

getDate(t) ==
  t - FirstDay(getMonth(t)) + 1

\* new Date(y, m, d) normalisation: a day past the end of the month rolls
\* over into the following month.
MakeDate(m, d) ==
  FirstDay(m) + d - 1

setDatePlus(t, n) ==
  MakeDate(getMonth(t), getDate(t) + n)

setMonthPlus1(t) ==
  MakeDate(getMonth(t) + 1, getDate(t))

\* ------------------------------------------------------- JSON text columns
\* A cycle_config value is the object itself (enc = 0) or the text obtained
\* by applying JSON.stringify enc times.  period = "none" and end_time = 0
\* stand for a field that is not there.
JSONstringify(v) ==
  [v EXCEPT !.enc = @ + 1]

\* task.cycle_config?.period : property access on a string gives undefined
PeriodOf(cc) ==
  IF cc.enc = 0 THEN cc.period ELSE "none"

\* task.cycle_config?.end_time
EndTimeOf(cc) ==
  IF cc.enc = 0 THEN cc.end_time ELSE 0

\* --------------------------------------------------------------- task rows
MkTask(i, ch, ty, per, endt, st, et) ==
  [id |-> i, channel |-> ch, type |-> ty,
   cycle_config |-> [enc |-> 0, period |-> per, end_time |-> endt],
   status |-> st, execute_time |-> et, execute_count |-> 0, update_time |-> 0]

\* INSERT INTO task ... with cycle_config bound as JSON.stringify(...)
insertTask(d, task) ==
  (task.id :> [task EXCEPT !.cycle_config = JSONstringify(@)]) @@ d

\* variant of updateTask whose UPDATE has no WHERE clause
updateTaskNoWhere(d, task) ==
  [i \in DOMAIN d |->
     [task EXCEPT !.id = i, !.cycle_config = JSONstringify(@)]]

\* UPDATE task SET ... WHERE id = ?  (every column but id and create_time)
updateTask(d, task) ==
  [d EXCEPT ![task.id] = [task EXCEPT !.cycle_config = JSONstringify(@)]]

\* The shapes of task the API can have created (handleCreateTask).
Templates(i) ==
  { MkTask(i, "server_chan", "single", "none",  0,  TRUE, 30),
    MkTask(i, "webhook",     "single", "none",  0,  TRUE, 31),
    MkTask(i, "server_chan", "cycle",  "week",  0,  TRUE, 31),
    MkTask(i, "server_chan", "cycle",  "month", 31, TRUE, 30),
    MkTask(i, "webhook",     "cycle",  "year",  40, TRUE, 32) }

\* ------------------------------------------------------------ due-task query
\* variant of IsDue without the status = TRUE test
IsDueWhateverStatus(row, now) ==
  row.execute_time <= now

\* WHERE status = TRUE AND execute_time <= ?
IsDue(row, now) ==
  row.status /\ row.execute_time <= now

RECURSIVE OrderByExecuteTime(_, _)
OrderByExecuteTime(ids, d) ==
  IF ids = {} THEN << >>
  ELSE LET m == CHOOSE i \in ids : \A j \in ids :
                  \/ d[i].execute_time < d[j].execute_time
                  \/ d[i].execute_time = d[j].execute_time /\ i <= j
       IN  << d[m] >> \o OrderByExecuteTime(ids \ {m}, d)

\* variant of queryDueTasks without the status filter
queryDueTasksAnyStatus(d, currentTime) ==
  OrderByExecuteTime({i \in DOMAIN d : d[i].execute_time <= currentTime}, d)

\* variant of queryDueTasks with ORDER BY execute_time DESC
queryDueTasksDescending(d, currentTime) ==
  LET neg == [i \in DOMAIN d |-> [d[i] EXCEPT !.execute_time = 0 - @]]
      s   == OrderByExecuteTime({i \in DOMAIN d : IsDue(d[i], currentTime)}, neg)
  IN  [j \in 1..Len(s) |-> d[s[j].id]]

\* SELECT * FROM task WHERE status = TRUE AND execute_time <= ?
\* ORDER BY execute_time ASC
queryDueTasks(d, currentTime) ==
  OrderByExecuteTime({i \in DOMAIN d : IsDue(d[i], currentTime)}, d)

\* ------------------------------------------------------- recurrence advance
\* variant of updateTaskAfterSuccess that stamps execute_time with the tick time
updateTaskAfterSuccessAtNow(task, currentTime) ==
  [task EXCEPT !.status = IF task.type = "single" THEN FALSE ELSE @,
               !.execute_count = @ + 1,
               !.update_time = currentTime,
               !.execute_time = currentTime]

\* variant of updateTaskAfterSuccess whose default branch advances by a day
updateTaskAfterSuccessDefaultDay(task, currentTime) ==
  LET period  == PeriodOf(task.cycle_config)
      endDate == EndTimeOf(task.cycle_config)
      ended   == task.type = "cycle" /\ endDate # 0 /\ endDate <= currentTime
      next    == IF task.type = "cycle" /\ ~ended
                 THEN CASE period = "week"  -> setDatePlus(currentTime, 7)
                        [] period = "month" -> setMonthPlus1(currentTime)
                        [] OTHER            -> setDatePlus(currentTime, 1)
                 ELSE task.execute_time
  IN  [task EXCEPT !.status = IF task.type = "single" \/ ended THEN FALSE ELSE @,
                   !.execute_count = @ + 1,
                   !.update_time = currentTime,
                   !.execute_time = next]

\* The in-memory mutation of updateTaskAfterSuccess; the write-back
\* (updateTask) is applied by the actions that call it.
updateTaskAfterSuccess(task, currentTime) ==
  LET period  == PeriodOf(task.cycle_config)
      endDate == EndTimeOf(task.cycle_config)
      ended   == task.type = "cycle" /\ endDate # 0 /\ endDate <= currentTime
      next    == IF task.type = "cycle" /\ ~ended
                 THEN CASE period = "day"   -> setDatePlus(currentTime, 1)
                        [] period = "week"  -> setDatePlus(currentTime, 7)
                        [] period = "month" -> setMonthPlus1(currentTime)
                        [] OTHER            -> task.execute_time
                 ELSE task.execute_time
  IN  [task EXCEPT !.status = IF task.type = "single" \/ ended THEN FALSE ELSE @,
                   !.execute_count = @ + 1,
                   !.update_time = currentTime,
                   !.execute_time = next]

\* ------------------------------------------------------------ configuration
\* What the GLOBAL_CONFIG key of the KV namespace holds: nothing, text that
\* is not JSON, or a JSON object.  notification_channels is missing, a
\* non-object (a string) or an object with the given keys; retry_config is
\* missing or an object whose max_retry is a number or missing (Undefined).
MkConfig(kvKind, ncType, ncKeys, rcPresent, maxRetry) ==
  [kv |-> kvKind,
   notification_channels |-> [type |-> ncType, keys |-> ncKeys],
   retry_config |-> [present |-> rcPresent, max_retry |-> maxRetry]]

AllChannels == {"server_chan", "wechat_work", "webhook"}

BadConfigs ==
  { MkConfig("absent",  "undefined", {}, FALSE, Undefined),
    MkConfig("garbage", "undefined", {}, FALSE, Undefined),
    MkConfig("json",    "undefined", {}, TRUE,  1),
    MkConfig("json",    "string",    {}, TRUE,  1) }

RetryConfigs ==
  {<<FALSE, Undefined>>, <<TRUE, Undefined>>} \cup {<<TRUE, n>> : n \in 0..MaxRetry}

GoodConfigs ==
  { MkConfig("json", "object", AllChannels, rc[1], rc[2]) : rc \in RetryConfigs }
  \cup { MkConfig("json", "object", {"server_chan"}, TRUE, 1) }

Configs == BadConfigs \cup GoodConfigs

\* loadAppConfig: throws when the key is absent or JSON.parse fails
loadAppConfigThrows(c) ==
  c.kv # "json"

\* variant of ChannelsValid without the test for a missing value
ChannelsValidLax(c) ==
  c.notification_channels.type # "string"

\* !config.notification_channels || typeof ... !== 'object'  => throw
ChannelsValid(c) ==
  c.notification_channels.type = "object"

\* the channels that handleScheduledTasks has a sender for
HasSender(ch) ==
  ch \in {"server_chan", "wechat_work"}

\* ------------------------------------------------------- sendByServerChan
\* A send_key is a string, read here as the sequence of its segments: the
\* four letters "sctp", a digit, or any other character.  The empty
\* sequence stands for a send_key that is missing or the empty string.
KeySegments == {"sctp", "digit", "other"}

SendKeys ==
  UNION {[1..n -> KeySegments] : n \in 0..MaxKeyLen}

\* What fetch and response.json() give: a body whose code is 0, a body with
\* another code, a body that is not JSON, or no response at all.
Responses == {"code0", "codeNonZero", "notJSON", "networkError"}

\* send_key.startsWith('sctp')
startsWithSctp(key) ==
  Len(key) >= 1 /\ key[1] = "sctp"

\* variant of regexExec for the anchored pattern /^sctp(\d+)/
regexExecAnchored(key, from) ==
  IF Len(key) >= from + 1 /\ key[from] = "sctp" /\ key[from + 1] = "digit"
  THEN from ELSE 0

\* /sctp(\d+)/.exec(send_key): the position of the leftmost match at or
\* after from, 0 for null
RECURSIVE regexExec(_, _)
regexExec(key, from) ==
  IF from + 1 > Len(key) THEN 0
  ELSE IF key[from] = "sctp" /\ key[from + 1] = "digit" THEN from
  ELSE regexExec(key, from + 1)

Threw(err, n) ==
  [outcome |-> "threw", error |-> err, requests |-> n, pushUrl |-> "none"]

\* lines 420-447: the outcome of one call, with the number of fetch calls
\* it made and the host it posted to
sendByServerChan(send_key, response) ==
  IF send_key = << >> THEN Threw("no send_key", 0)
  ELSE IF startsWithSctp(send_key) /\ regexExec(send_key, 1) = 0
  THEN Threw("bad sctp send_key", 0)
  ELSE LET pushUrl == IF startsWithSctp(send_key) THEN "push.ft07.com"
                      ELSE "api_prefix" IN
       CASE response = "networkError" -> Threw("fetch", 1)
         [] response = "notJSON"      -> Threw("json", 1)
         [] response = "codeNonZero"  -> Threw("code", 1)
         [] OTHER -> [outcome |-> "returned", error |-> "none",
                      requests |-> 1, pushUrl |-> pushUrl]

Faults ==
  {[stmt |-> "none", left |-> 0]}
  \cup [stmt : {"query", "update", "log"}, left : 1..MaxFaults]

\* ------------------------------------------------------------------- state
VARIABLES
  db,          \* the task table: id -> row
  log,         \* the log table, in insertion order
  kv,          \* the stored configuration
  provider,    \* the push provider: whether it accepts the next request,
               \* and whether it changes its mind after that request
  clock,       \* the latest time read by new Date()
  fault,       \* the D1 statement that fails, and how many more times
  tk,          \* per tick invocation: the locals of handleScheduledTasks
  call,        \* one call of sendByServerChan: its arguments and outcome
  api          \* the PUT /api/tasks/{id} requests: how many may still come,
               \* and the last one answered

vars == <<db, log, kv, provider, clock, fault, tk, call, api>>

NoCall == [pc |-> "none"]

NoRequest == [left |-> 0, status |-> 0]

NoTask == [id |-> 0]

EmptyMessage == [kind |-> "empty", n |-> 0, err |-> "none"]

IdleTick ==
  [pc |-> "idle", currentTime |-> 0, dueTasks |-> << >>, idx |-> 0,
   task |-> NoTask, executeResult |-> [status |-> "fail", message |-> EmptyMessage],
   retryCount |-> 0, result |-> "none",
   \* history of the current dispatch, kept for the properties
   before |-> NoTask, sends |-> 0, okSends |-> 0, firstOk |-> FALSE,
   upAfterFirst |-> FALSE,
   wrote |-> FALSE, logged |-> FALSE, escaping |-> FALSE, failedIds |-> {}]

\* The tables the API can have filled: one insertTask per task id.
TaskChoices ==
  { c \in [TaskIds -> UNION {Templates(i) : i \in TaskIds}] :
      \A i \in TaskIds : c[i].id = i }

RECURSIVE InsertAll(_, _, _)
InsertAll(d, c, ids) ==
  IF ids = {} THEN d
  ELSE LET i == CHOOSE j \in ids : TRUE
       IN  InsertAll(insertTask(d, c[i]), c, ids \ {i})

Init ==
  /\ db \in { InsertAll(<< >>, c, TaskIds) : c \in TaskChoices }
  /\ log = << >>
  /\ kv \in Configs
  /\ provider \in [up : BOOLEAN, flips : BOOLEAN]
  /\ clock = 0
  /\ fault \in Faults
  /\ tk = [k \in TickIds |-> IdleTick]
  /\ call = NoCall
  /\ api = NoRequest

\* ------------------------------------------------------ handleScheduledTasks
\* The outer try/catch of handleScheduledTasks: the error is logged to the
\* console and the function returns.
OuterCatch(t) ==
  [t EXCEPT !.pc = "done", !.result = "returned"]

\* A D1 statement returns or throws.  In one run the statements of one
\* kind (the due-task SELECT, the task UPDATE, the log INSERT) throw the
\* first fault.left times they are executed; all others return.
Throws(stmt) ==
  fault.stmt = stmt /\ fault.left > 0

Executed(stmt) ==
  fault' = IF Throws(stmt) THEN [fault EXCEPT !.left = @ - 1] ELSE fault

\* The provider answers a request with provider.up and, when it flips,
\* answers the following requests the other way.
Requested ==
  provider' = IF provider.flips THEN [up |-> ~provider.up, flips |-> FALSE]
              ELSE provider

\* Ticks of this specification do not overlap: a tick starts when every
\* earlier one has ended.
MayStart(k) ==
  /\ tk[k].pc = "idle"
  /\ \A j \in TickIds : j < k => tk[j].pc = "done"

\* lines 108-115: load and validate the configuration, read the clock
LoadAndValidate(k) ==
  /\ IF loadAppConfigThrows(kv) \/ ~ChannelsValid(kv)
     THEN /\ tk' = [tk EXCEPT ![k] = OuterCatch(@)]
          /\ UNCHANGED clock
     ELSE \E now \in TickTimes :
          /\ now >= clock
          /\ clock' = now
          /\ tk' = [tk EXCEPT ![k] = [@ EXCEPT !.pc = "query", !.currentTime = now]]
  /\ UNCHANGED <<db, log, kv, provider, fault, call, api>>

LoadConfig(k) ==
  /\ MayStart(k)
  /\ LoadAndValidate(k)

\* line 116: the due-task query, which may fail as any D1 statement may
QueryDue(k) ==
  LET t == tk[k] IN
  /\ t.pc = "query"
  /\ Executed("query")
  /\ tk' = [tk EXCEPT ![k] =
              IF Throws("query")
              THEN OuterCatch(t)
              ELSE [t EXCEPT !.pc = "next", !.idx = 1,
                             !.dueTasks = queryDueTasks(db, t.currentTime)]]
  /\ UNCHANGED <<db, log, kv, provider, clock, call, api>>

\* lines 119-121: the head of the for-of loop
NextTask(k) ==
  LET t == tk[k] IN
  /\ t.pc = "next"
  /\ tk' = [tk EXCEPT ![k] =
              IF t.idx > Len(t.dueTasks)
              THEN [t EXCEPT !.pc = "done", !.result = "returned"]
              ELSE [t EXCEPT !.pc = "attempt",
                             !.task = t.dueTasks[t.idx],
                             !.executeResult = [status |-> "fail", message |-> EmptyMessage],
                             !.retryCount = 0,
                             !.before = t.dueTasks[t.idx],
                             !.sends = 0, !.okSends = 0, !.firstOk = FALSE,
                             !.upAfterFirst = FALSE,
                             !.wrote = FALSE, !.logged = FALSE, !.escaping = FALSE]]
  /\ UNCHANGED <<db, log, kv, provider, clock, fault, call, api>>

\* lines 143-145: an error of the first attempt enters the catch block
EnterCatch(t) ==
  [t EXCEPT !.pc = "retry", !.retryCount = 0]

\* lines 125-140: channel lookup and the first send
FirstAttempt(k) ==
  LET t == tk[k] IN
  /\ t.pc = "attempt"
  /\ IF t.task.channel \notin kv.notification_channels.keys
     THEN /\ tk' = [tk EXCEPT ![k] = EnterCatch(t)]
          /\ UNCHANGED provider
     ELSE IF HasSender(t.task.channel)
     THEN /\ Requested
          /\ tk' = [tk EXCEPT ![k] =
                      IF provider.up
                      THEN [t EXCEPT !.pc = "update", !.sends = @ + 1,
                                     !.okSends = @ + 1, !.firstOk = TRUE,
                                     !.upAfterFirst = provider'.up,
                                     !.executeResult =
                                        [status |-> "success",
                                         message |-> [kind |-> "pushed", n |-> 0, err |-> "none"]]]
                      ELSE EnterCatch([t EXCEPT !.sends = @ + 1,
                                                !.upAfterFirst = provider'.up])]
     ELSE /\ tk' = [tk EXCEPT ![k] =
                      [t EXCEPT !.pc = "update",
                                !.executeResult =
                                   [status |-> "success",
                                    message |-> [kind |-> "pushed", n |-> 0, err |-> "none"]]]]
          /\ UNCHANGED provider
  /\ UNCHANGED <<db, log, kv, clock, fault, call, api>>

\* line 141: updateTaskAfterSuccess after the first send; a failed write
\* throws into the catch block, the task object stays mutated
FirstUpdate(k) ==
  LET t == tk[k]
      m == updateTaskAfterSuccess(t.task, t.currentTime) IN
  /\ t.pc = "update"
  /\ Executed("update")
  /\ IF Throws("update")
     THEN /\ tk' = [tk EXCEPT ![k] = EnterCatch([t EXCEPT !.task = m])]
          /\ UNCHANGED db
     ELSE /\ db' = updateTask(db, m)
          /\ tk' = [tk EXCEPT ![k] = [t EXCEPT !.pc = "log", !.task = m, !.wrote = TRUE]]
  /\ UNCHANGED <<log, kv, provider, clock, call, api>>

\* variant of RetryChannelConfig with the binding of line 125 visible
RetryChannelConfigInScope(t) ==
  IF t.task.channel \in kv.notification_channels.keys THEN "config" ELSE "undefined"

\* What evaluating the identifier channelConfig gives at lines 153 and 155.
\* It is declared by const inside the try block (line 125) and the retry
\* loop is in the catch block, where no such binding exists.
RetryChannelConfig(t) ==
  "ReferenceError"

Success(kind, n) ==
  [status |-> "success", message |-> [kind |-> kind, n |-> n, err |-> "none"]]

\* variant of RetryFailed that loses the retryCount++ of line 148
RetryFailedNotCounted(t, n, err) ==
  [t EXCEPT !.pc = "retry",
            !.executeResult.message =
               IF n >= kv.retry_config.max_retry
               THEN [kind |-> "failed", n |-> n, err |-> err] ELSE @]

\* lines 165-169: the catch of one retry; only the last one sets the message
RetryFailed(t, n, err) ==
  [t EXCEPT !.pc = "retry", !.retryCount = n,
            !.executeResult.message =
               IF n >= kv.retry_config.max_retry
               THEN [kind |-> "failed", n |-> n, err |-> err] ELSE @]

\* lines 146-161: the loop condition, the sleep and one retry of the send
Retry(k) ==
  LET t  == tk[k]
      rc == kv.retry_config
      n  == t.retryCount + 1 IN
  /\ t.pc = "retry"
  /\ IF ~rc.present
     THEN \* config.retry_config.max_retry throws a TypeError out of the catch
          /\ tk' = [tk EXCEPT ![k] = [t EXCEPT !.pc = "log", !.escaping = TRUE]]
          /\ UNCHANGED provider
     ELSE IF rc.max_retry = Undefined \/ ~(t.retryCount < rc.max_retry)
     THEN /\ tk' = [tk EXCEPT ![k] = [t EXCEPT !.pc = "log"]]
          /\ UNCHANGED provider
     ELSE IF ~HasSender(t.task.channel)
     THEN /\ tk' = [tk EXCEPT ![k] =
                      [t EXCEPT !.pc = "retryUpdate", !.retryCount = n,
                                !.executeResult = Success("retried", n)]]
          /\ UNCHANGED provider
     ELSE IF RetryChannelConfig(t) = "ReferenceError"
     THEN /\ tk' = [tk EXCEPT ![k] = RetryFailed(t, n, "ReferenceError")]
          /\ UNCHANGED provider
     ELSE IF RetryChannelConfig(t) = "undefined"
     THEN \* the sender is entered and fails destructuring its argument
          /\ tk' = [tk EXCEPT ![k] =
                      RetryFailed([t EXCEPT !.sends = @ + 1], n, "TypeError")]
          /\ UNCHANGED provider
     ELSE /\ Requested
          /\ tk' = [tk EXCEPT ![k] =
                      IF provider.up
                      THEN [t EXCEPT !.pc = "retryUpdate", !.retryCount = n,
                                     !.sends = @ + 1, !.okSends = @ + 1,
                                     !.executeResult = Success("retried", n)]
                      ELSE RetryFailed([t EXCEPT !.sends = @ + 1], n, "sender")]
  /\ UNCHANGED <<db, log, kv, clock, fault, call, api>>

\* lines 162-163: updateTaskAfterSuccess after a retry, then break
RetryUpdate(k) ==
  LET t == tk[k]
      m == updateTaskAfterSuccess(t.task, t.currentTime) IN
  /\ t.pc = "retryUpdate"
  /\ Executed("update")
  /\ IF Throws("update")
     THEN /\ tk' = [tk EXCEPT ![k] =
                      RetryFailed([t EXCEPT !.task = m], t.retryCount, "db")]
          /\ UNCHANGED db
     ELSE /\ db' = updateTask(db, m)
          /\ tk' = [tk EXCEPT ![k] = [t EXCEPT !.pc = "log", !.task = m, !.wrote = TRUE]]
  /\ UNCHANGED <<log, kv, provider, clock, call, api>>

\* lines 171-182: the finally block.  The insert may fail; its error, or
\* the one already leaving the catch block, ends the for loop.
InsertLog(k) ==
  LET t   == tk[k]
      rec == [task_id |-> t.task.id, channel |-> t.task.channel,
              execute_time |-> t.currentTime,
              status |-> t.executeResult.status,
              message |-> t.executeResult.message,
              tick |-> k] 
      u   == [t EXCEPT !.failedIds =
                 IF t.executeResult.status = "fail" THEN @ \cup {t.task.id} ELSE @] IN
  /\ t.pc = "log"
  /\ Executed("log")
  /\ log' = IF Throws("log") THEN log ELSE Append(log, rec)
  /\ tk' = [tk EXCEPT ![k] =
              IF ~Throws("log") /\ ~t.escaping
              THEN [u EXCEPT !.pc = "next", !.idx = @ + 1, !.logged = TRUE]
              ELSE OuterCatch([u EXCEPT !.logged = ~Throws("log")])]
  /\ UNCHANGED <<db, kv, provider, clock, call, api>>

Next ==
  \E k \in TickIds :
    \/ LoadConfig(k)
    \/ QueryDue(k)
    \/ NextTask(k)
    \/ FirstAttempt(k)
    \/ FirstUpdate(k)
    \/ Retry(k)
    \/ RetryUpdate(k)
    \/ InsertLog(k)

Spec == Init /\ [][Next]_vars

\* The runtime resumes handleScheduledTasks whenever the promise it awaits
\* settles, and every D1 statement, sleep and sender call settles: a step
\* that can be taken is taken.
\* The runs checked for termination start from the tables whose tasks were
\* created in the order of their execute_time, no two at the same time.
InitFair ==
  /\ db \in { InsertAll(<< >>, c, TaskIds) :
               c \in { x \in TaskChoices :
                         \A i, j \in TaskIds :
                           i < j => x[i].execute_time < x[j].execute_time } }
  /\ log = << >>
  /\ kv \in Configs
  /\ provider \in [up : BOOLEAN, flips : BOOLEAN]
  /\ clock = 0
  /\ fault \in Faults
  /\ tk = [k \in TickIds |-> IdleTick]
  /\ call = NoCall
  /\ api = NoRequest

SpecFair == InitFair /\ [][Next]_vars /\ WF_vars(Next)

\* ------------------------------------------------------- overlapping ticks
\* Nothing in handleScheduledTasks keeps the host from firing a tick while
\* an earlier one is still running: the cron trigger fires on schedule and
\* a tick lasts as long as its sends and retry sleeps.
MayStartOverlapping(k) ==
  /\ tk[k].pc = "idle"
  /\ \A j \in TickIds : j < k => tk[j].pc # "idle"

LoadConfigOverlapping(k) ==
  /\ MayStartOverlapping(k)
  /\ LoadAndValidate(k)

NextOverlapping ==
  \E k \in TickIds :
    \/ LoadConfigOverlapping(k)
    \/ QueryDue(k)
    \/ NextTask(k)
    \/ FirstAttempt(k)
    \/ FirstUpdate(k)
    \/ Retry(k)
    \/ RetryUpdate(k)
    \/ InsertLog(k)

SpecOverlapping == Init /\ [][NextOverlapping]_vars

\* ------------------------------------------------------ PUT /api/tasks/{id}
\* An id no stored task has.
UnknownId == NumTasks + 1

UrlIds == TaskIds \cup {UnknownId}

\* Request bodies: any JSON object.  These change one of the columns, and
\* some carry an id field of their own.
Bodies ==
  { [channel |-> "wechat_work"],
    [type |-> "cycle",
     cycle_config |-> [enc |-> 0, period |-> "day", end_time |-> 0]],
    [status |-> FALSE] }
  \cup { [id |-> i, channel |-> "wechat_work"] : i \in UrlIds }

\* SELECT * FROM task WHERE id = ?  (.first(): the row or null)
getTaskById(d, taskId) ==
  IF taskId \in DOMAIN d THEN d[taskId] ELSE NoTask

\* The dispatch of task id by tick k has not written the task back yet: the
\* tick holds the row in dueTasks and has not passed it.
PendingIn(k, id) ==
  /\ tk[k].idx >= 1
  /\ \E j \in 1..Len(tk[k].dueTasks) :
       /\ tk[k].dueTasks[j].id = id
       /\ \/ tk[k].pc \in {"next", "attempt", "update", "retry", "retryUpdate"}
             /\ j >= tk[k].idx
          \/ tk[k].pc = "log" /\ j > tk[k].idx

\* lines 262-285: handleUpdateTask.  new Date() is taken to give the time
\* the latest tick read.
HandleUpdateTask(taskId, body) ==
  LET task        == getTaskById(db, taskId)
      updatedTask == ("update_time" :> clock) @@ body @@ task
      answered(st, target, row) ==
        [left |-> api.left - 1, status |-> st, taskId |-> taskId,
         body |-> body, target |-> target, row |-> row,
         pending |-> {k \in TickIds : PendingIn(k, target)}] IN
  /\ api.left > 0
  /\ IF task = NoTask
     THEN /\ api' = answered(404, 0, NoTask)
          /\ UNCHANGED <<db, fault>>
     ELSE /\ Executed("update")
          /\ IF Throws("update")
             THEN /\ api' = answered(500, 0, NoTask)
                  /\ UNCHANGED db
             ELSE /\ db' = IF updatedTask.id \in DOMAIN db
                           THEN updateTask(db, updatedTask) ELSE db
                  /\ api' = answered(200, updatedTask.id,
                                     IF updatedTask.id \in DOMAIN db
                                     THEN updateTask(db, updatedTask)[updatedTask.id]
                                     ELSE NoTask)
  /\ UNCHANGED <<log, kv, provider, clock, tk, call>>

\* The scheduler runs with a configuration that loads and retries once,
\* against a provider that does not change its mind; of the D1 statements
\* only the UPDATE may fail, once.
InitApi ==
  /\ db \in { InsertAll(<< >>, c, TaskIds) : c \in TaskChoices }
  /\ log = << >>
  /\ kv \in { c \in GoodConfigs : c.retry_config.max_retry = 1 }
  /\ provider \in [up : BOOLEAN, flips : {FALSE}]
  /\ clock = 0
  /\ fault \in { f \in Faults : f.stmt \in {"none", "update"} /\ f.left <= 1 }
  /\ tk = [k \in TickIds |-> IdleTick]
  /\ call = NoCall
  /\ api = [left |-> MaxApiCalls, status |-> 0]

NextApi ==
  \/ \E k \in TickIds :
       \/ LoadConfig(k)
       \/ QueryDue(k)
       \/ NextTask(k)
       \/ FirstAttempt(k)
       \/ FirstUpdate(k)
       \/ Retry(k)
       \/ RetryUpdate(k)
       \/ InsertLog(k)
  \/ \E taskId \in UrlIds, body \in Bodies : HandleUpdateTask(taskId, body)

SpecApi == InitApi /\ [][NextApi]_vars

\* -------------------------------------------------- sendByServerChan alone
\* One call of the sender on any send_key, the provider answering in any of
\* the four ways; the scheduler is not running.
InitSender ==
  /\ db = << >>
  /\ log = << >>
  /\ kv = MkConfig("json", "object", {"server_chan"}, TRUE, 0)
  /\ provider = [up |-> TRUE, flips |-> FALSE]
  /\ clock = 0
  /\ fault = [stmt |-> "none", left |-> 0]
  /\ tk = [k \in TickIds |-> IdleTick]
  /\ call \in [pc : {"called"}, send_key : SendKeys, response : Responses]
  /\ api = NoRequest

CallSendByServerChan ==
  /\ call.pc = "called"
  /\ call' = [pc |-> "done", send_key |-> call.send_key,
              response |-> call.response,
              result |-> sendByServerChan(call.send_key, call.response)]
  /\ UNCHANGED <<db, log, kv, provider, clock, fault, tk, api>>

NextSender ==
  CallSendByServerChan

SpecSender == InitSender /\ [][NextSender]_vars

\* =============================================================== properties
\* The dispatch of tk[k].task has just ended: its finally block has run and
\* nothing has happened to the table since.
Finished(k) ==
  /\ tk[k].task.id # 0
  /\ tk[k].pc \in {"next", "done"}
  /\ \A j \in TickIds : j > k => tk[j].pc = "idle"

\* The due-task query of tick k has returned.
Queried(k) ==
  tk[k].idx >= 1

DueIds(k) ==
  {tk[k].dueTasks[i].id : i \in 1..Len(tk[k].dueTasks)}

LogsOf(k, id) ==
  {i \in 1..Len(log) : log[i].tick = k /\ log[i].task_id = id}

Configured(ch) ==
  ch \in kv.notification_channels.keys

\* the period and end_time the task was created with
RealPeriod(row) ==
  row.cycle_config.period

RealEnd(row) ==
  row.cycle_config.end_time

AddPeriod(t, per) ==
  CASE per = "day"   -> t + 1
    [] per = "week"  -> t + 7
    [] per = "month" -> setMonthPlus1(t)
    [] OTHER         -> t

\* C1: a due task on a configured channel whose every send is rejected is
\* sent exactly 1 + max_retry times in the tick and gets exactly one log
\* record, with status fail (no D1 statement failing).
C1_ExactlyOnePlusNSends ==
  \A k \in TickIds :
    ( /\ Finished(k)
      /\ fault.stmt = "none"
      /\ Configured(tk[k].task.channel) /\ HasSender(tk[k].task.channel)
      /\ kv.retry_config.present /\ kv.retry_config.max_retry >= 0
      /\ tk[k].okSends = 0 /\ ~provider.up )
    => /\ tk[k].sends = 1 + kv.retry_config.max_retry
       /\ Cardinality(LogsOf(k, tk[k].task.id)) = 1
       /\ \A i \in LogsOf(k, tk[k].task.id) : log[i].status = "fail"

\* C2: when the first send is rejected and the provider would accept the
\* next one (max_retry >= 1), the sender is invoked exactly twice, the task
\* is advanced and the tick's log record says success.
C2_FirstRetrySucceeds ==
  \A k \in TickIds :
    ( /\ Finished(k)
      /\ fault.stmt = "none"
      /\ Configured(tk[k].task.channel) /\ HasSender(tk[k].task.channel)
      /\ kv.retry_config.present /\ kv.retry_config.max_retry >= 1
      /\ tk[k].sends >= 1 /\ ~tk[k].firstOk /\ tk[k].upAfterFirst )
    => /\ tk[k].sends = 2
       /\ tk[k].wrote
       /\ \A i \in LogsOf(k, tk[k].task.id) : log[i].status = "success"

\* C3: a dispatch that ends in failure leaves the stored status,
\* execute_time and execute_count of the task as the tick found them, so the
\* task is still due, and the next tick's query returns it.
C3_FailedTaskStaysDue ==
  /\ \A k \in TickIds :
       (Finished(k) /\ tk[k].executeResult.status = "fail")
       => LET row == db[tk[k].task.id] IN
          /\ row.status = tk[k].before.status
          /\ row.execute_time = tk[k].before.execute_time
          /\ row.execute_count = tk[k].before.execute_count
          /\ row.status = TRUE /\ row.execute_time <= tk[k].currentTime
  /\ \A k \in TickIds :
       (k > 1 /\ Queried(k)) => tk[k - 1].failedIds \subseteq DueIds(k)

C3_Witness ==
  \E k \in TickIds :
    /\ k > 1 /\ Queried(k) /\ tk[k].pc = "next" /\ tk[k].idx = 1
    /\ tk[k - 1].failedIds # {}
    /\ tk[k - 1].retryCount >= 1

\* C4: whatever happens to one task of the tick, every task the query
\* returned is dispatched.
C4_EveryDueTaskDispatched ==
  \A k \in TickIds :
    (tk[k].pc = "done" /\ Queried(k)) => tk[k].idx >= Len(tk[k].dueTasks)

\* C5: a tick whose configuration loads appends exactly one log record for
\* each task its query returned and none for any other task (no D1
\* statement failing).
C5_OneLogPerDueTask ==
  \A k \in TickIds :
    (tk[k].pc = "done" /\ Queried(k) /\ fault.stmt = "none")
    => \A id \in TaskIds :
         Cardinality(LogsOf(k, id)) = IF id \in DueIds(k) THEN 1 ELSE 0

\* C6: after a successful dispatch of a single task its stored status is
\* false and its stored execute_time is what it was before the dispatch.
C6_SingleDeactivated ==
  \A k \in TickIds :
    (Finished(k) /\ tk[k].wrote /\ tk[k].before.type = "single")
    => /\ db[tk[k].task.id].status = FALSE
       /\ db[tk[k].task.id].execute_time = tk[k].before.execute_time

C6_Witness ==
  \E k \in TickIds :
    /\ Finished(k) /\ tk[k].wrote /\ tk[k].before.type = "single"
    /\ tk[k].before.execute_time < tk[k].currentTime

\* C7: after a successful dispatch of a cycle task with period day, week or
\* month that is not past its end_time, the stored execute_time is one
\* period later than it was before the dispatch.
C7_AdvancedByOnePeriod ==
  \A k \in TickIds :
    ( /\ Finished(k) /\ tk[k].wrote
      /\ tk[k].before.type = "cycle"
      /\ RealPeriod(tk[k].before) \in {"day", "week", "month"}
      /\ (RealEnd(tk[k].before) = 0 \/ RealEnd(tk[k].before) > tk[k].currentTime) )
    => db[tk[k].task.id].execute_time =
          AddPeriod(tk[k].before.execute_time, RealPeriod(tk[k].before))

\* C8: after the tick has dispatched a cycle task whose end_time is not
\* later than the tick time, the stored status of the task is false (here
\* in the case where the send succeeded and the task was written back).
C8_EndedCycleDeactivated ==
  \A k \in TickIds :
    ( /\ Finished(k) /\ tk[k].wrote
      /\ tk[k].before.type = "cycle"
      /\ RealEnd(tk[k].before) # 0
      /\ RealEnd(tk[k].before) <= tk[k].currentTime )
    => db[tk[k].task.id].status = FALSE

\* C9: the due-task query returns the stored rows with status true and
\* execute_time <= now, each once, and no other row.
C9_QueryReturnsExactlyDue ==
  \A k \in TickIds :
    (tk[k].pc = "next" /\ tk[k].idx = 1)
    => LET due == tk[k].dueTasks IN
       /\ \A i \in DOMAIN db :
            (\E j \in 1..Len(due) : due[j].id = i)
            <=> (db[i].status = TRUE /\ db[i].execute_time <= tk[k].currentTime)
       /\ \A j \in 1..Len(due) : due[j] = db[due[j].id]
       /\ \A i, j \in 1..Len(due) : due[i].id = due[j].id => i = j

C9_Witness ==
  \E k \in TickIds :
    /\ tk[k].pc = "next" /\ tk[k].idx = 1
    /\ Len(tk[k].dueTasks) = 1
    /\ \E i \in DOMAIN db : ~db[i].status
    /\ \A i \in DOMAIN db : db[i].execute_time <= tk[k].currentTime

\* C10: with a configuration that cannot be loaded, or whose
\* notification_channels is missing or not an object, a tick ends at once:
\* nothing is sent, no row and no log record is written, and the function
\* returns.
BadConfig(c) ==
  c.kv # "json" \/ c.notification_channels.type # "object"

C10_BadConfigAbortsTick ==
  [][ BadConfig(kv) =>
        /\ db' = db /\ log' = log /\ provider' = provider
        /\ \A k \in TickIds :
             /\ tk'[k].pc \in {"idle", "done"}
             /\ tk'[k].pc = "done" => tk'[k].result = "returned"
             /\ tk'[k].sends = 0 /\ tk'[k].task = NoTask ]_vars

C10_Witness ==
  \E k \in TickIds :
    /\ tk[k].pc = "done" /\ BadConfig(kv)
    /\ \E i \in DOMAIN db : db[i].status /\ db[i].execute_time <= 31

\* C11: a task whose channel has no entry in the configuration fails at
\* once, whatever max_retry is: no sender is invoked, no retry is consumed,
\* the task is not written back and the tick's one log record says fail
\* (no D1 statement failing).
C11_UnknownChannelFailsAtOnce ==
  \A k \in TickIds :
    ( /\ Finished(k)
      /\ fault.stmt = "none"
      /\ ~Configured(tk[k].task.channel)
      /\ kv.retry_config.present /\ kv.retry_config.max_retry >= 0 )
    => /\ tk[k].sends = 0
       /\ tk[k].retryCount = 0
       /\ ~tk[k].wrote /\ db[tk[k].task.id] = tk[k].before
       /\ Cardinality(LogsOf(k, tk[k].task.id)) = 1
       /\ \A i \in LogsOf(k, tk[k].task.id) : log[i].status = "fail"

C13_CountFollowsSuccess ==
  \A k \in TickIds :
    Finished(k)
    => LET row == db[tk[k].task.id]
           b   == tk[k].before IN
       /\ row.execute_count >= b.execute_count
       /\ tk[k].executeResult.status = "success"
          => row.execute_count = b.execute_count + 1
       /\ tk[k].executeResult.status = "fail"
          => row.execute_count = b.execute_count

\* The positions of handleScheduledTasks inside the body of the for-of loop.
Dispatching(k) ==
  tk[k].pc \in {"attempt", "update", "retry", "retryUpdate", "log"}

\* the log records of tick k, as the sequence of their task ids
RECURSIVE TaskIdsLogged(_, _)
TaskIdsLogged(k, n) ==
  IF n = 0 THEN << >>
  ELSE IF log[n].tick = k
       THEN Append(TaskIdsLogged(k, n - 1), log[n].task_id)
       ELSE TaskIdsLogged(k, n - 1)

\* C14: within one tick the due tasks are dispatched one after the other in
\* ascending execute_time: the task being dispatched is the idx-th of the
\* sorted query result, and until its own record is due the records the tick
\* has appended are exactly those of the tasks before it, in that order (so
\* every send of a task comes after the record of the previous task).
C14_SequentialInTimeOrder ==
  \A k \in TickIds :
    Queried(k)
    => LET due  == tk[k].dueTasks
           done == TaskIdsLogged(k, Len(log)) IN
       /\ \A i, j \in 1..Len(due) :
            i < j => due[i].execute_time <= due[j].execute_time
       /\ Dispatching(k)
          => /\ tk[k].idx \in 1..Len(due)
             /\ tk[k].task.id = due[tk[k].idx].id
             /\ tk[k].before = due[tk[k].idx]
       /\ (Dispatching(k) /\ tk[k].pc # "log")
          => /\ Len(done) = tk[k].idx - 1
             /\ \A i \in 1..Len(done) : done[i] = due[i].id
       /\ Len(done) <= Len(due)
       /\ \A i \in 1..Len(done) : done[i] = due[i].id

C14_Witness ==
  \E k \in TickIds :
    /\ tk[k].pc = "update" /\ tk[k].idx = 2 /\ tk[k].sends >= 1
    /\ tk[k].dueTasks[1].execute_time < tk[k].dueTasks[2].execute_time
    /\ tk[k].dueTasks[1].id > tk[k].dueTasks[2].id
    /\ LogsOf(k, tk[k].dueTasks[1].id) # {}

\* C15: a cycle task with period day, week or month that is not past its
\* end_time, read by queryDueTasks and written back by updateTask after a
\* successful dispatch at tick time T, is stored with execute_time one
\* period after T, status true and execute_count one higher (no D1
\* statement failing).
C15_StoredOnePeriodAfterTick ==
  \A k \in TickIds :
    ( /\ Finished(k) /\ tk[k].wrote
      /\ fault.stmt = "none"
      /\ tk[k].before.type = "cycle"
      /\ RealPeriod(tk[k].before) \in {"day", "week", "month"}
      /\ (RealEnd(tk[k].before) = 0 \/ RealEnd(tk[k].before) > tk[k].currentTime) )
    => LET row == db[tk[k].task.id] IN
       /\ row.execute_time = AddPeriod(tk[k].currentTime, RealPeriod(tk[k].before))
       /\ row.status = TRUE
       /\ row.execute_count = tk[k].before.execute_count + 1

\* C16: a cycle task whose period is none of day, week, month and that is
\* not past its end_time is stored, after a successful dispatch, with its
\* execute_time unchanged, status true and a higher execute_count (one
\* higher when no D1 statement fails).
C16_UnknownPeriodStays ==
  \A k \in TickIds :
    ( /\ Finished(k) /\ tk[k].wrote
      /\ tk[k].before.type = "cycle"
      /\ RealPeriod(tk[k].before) \notin {"day", "week", "month"}
      /\ (RealEnd(tk[k].before) = 0 \/ RealEnd(tk[k].before) > tk[k].currentTime) )
    => LET row == db[tk[k].task.id] IN
       /\ row.execute_time = tk[k].before.execute_time
       /\ row.status = TRUE
       /\ row.execute_count > tk[k].before.execute_count
       /\ fault.stmt = "none"
          => row.execute_count = tk[k].before.execute_count + 1

C16_Witness ==
  \E k \in TickIds :
    /\ Finished(k) /\ tk[k].wrote
    /\ tk[k].before.type = "cycle"
    /\ RealPeriod(tk[k].before) = "year"
    /\ RealEnd(tk[k].before) > tk[k].currentTime
    /\ db[tk[k].task.id].execute_count = tk[k].before.execute_count + 1

SuccessLogs(id) ==
  {i \in 1..Len(log) : log[i].task_id = id /\ log[i].status = "success"}

\* C17: whatever the interleaving of the ticks, overlapping ones included,
\* no task is being dispatched by two ticks at the same moment, and once
\* all ticks are at rest the stored execute_count of every task is the
\* number of success records the log holds for it.
C17_OneDispatchAndCountMatchesLog ==
  /\ \A j, k \in TickIds :
       (j # k /\ Dispatching(j) /\ Dispatching(k))
       => tk[j].task.id # tk[k].task.id
  /\ (\A k \in TickIds : tk[k].pc \in {"idle", "done"})
     => \A i \in DOMAIN db :
          db[i].execute_count = Cardinality(SuccessLogs(i))

\* C18: when the first attempt and every retry of a task have failed, for
\* any max_retry >= 0, the message of the task's log record is not empty
\* and holds the number of retries made and the error of the last failed
\* attempt.
C18_FailMessageRecordsRetries ==
  \A k \in TickIds :
    ( /\ Finished(k) /\ tk[k].logged
      /\ tk[k].executeResult.status = "fail"
      /\ kv.retry_config.present /\ kv.retry_config.max_retry >= 0 )
    => \A i \in LogsOf(k, tk[k].task.id) :
         /\ log[i].message # EmptyMessage
         /\ log[i].message.kind = "failed"
         /\ log[i].message.n = tk[k].retryCount
         /\ log[i].message.err # "none"

\* the claim's condition on the key: present, and if it starts with "sctp"
\* then somewhere in it "sctp" is followed by a digit
KeyAccepted(key) ==
  /\ key # << >>
  /\ key[1] = "sctp"
     => \E i \in 1..(Len(key) - 1) : key[i] = "sctp" /\ key[i + 1] = "digit"

\* C19: sendByServerChan returns exactly when the send_key is present, a
\* key starting with "sctp" contains "sctp" followed by a digit, and the
\* decoded response has code 0; otherwise it throws, and it throws without
\* having made a request when the key is missing or the pattern fails.
C19_SenderSucceedsExactlyWhen ==
  call.pc = "done"
  => /\ call.result.outcome \in {"returned", "threw"}
     /\ call.result.outcome = "returned"
        <=> (KeyAccepted(call.send_key) /\ call.response = "code0")
     /\ ~KeyAccepted(call.send_key) => call.result.requests = 0

C19_Witness ==
  /\ call.pc = "done"
  /\ call.result.outcome = "returned"
  /\ Len(call.send_key) >= 4
  /\ call.send_key[1] = "sctp" /\ call.send_key[2] # "digit"

\* C20: a tick appends a success record for a task only if, in that tick, a
\* channel sender was invoked for the task and returned without error,
\* whatever the task's channel name is.
C20_SuccessOnlyAfterSend ==
  \A k \in TickIds :
    Finished(k)
    => \A i \in LogsOf(k, tk[k].task.id) :
         log[i].status = "success" => tk[k].okSends >= 1

\* C21: a tick appends a success record for a task only if its write-back
\* of the task (updateTask inside updateTaskAfterSuccess) completed; when
\* the send succeeds and the write-back fails the record is not a success.
C21_SuccessOnlyAfterWriteBack ==
  \A k \in TickIds :
    (Finished(k) /\ tk[k].logged)
    => \A i \in LogsOf(k, tk[k].task.id) :
         log[i].status = "success" => tk[k].wrote

\* C22: after a tick with tick time T has dispatched a task successfully
\* and written it back, the stored task is not due at T: its status is
\* false or its execute_time is later than T, so queryDueTasks at T or
\* earlier does not return it.
C22_NotDueAfterSuccess ==
  \A k \in TickIds :
    (Finished(k) /\ tk[k].wrote)
    => LET row == db[tk[k].task.id] IN
       /\ row.status = FALSE \/ row.execute_time > tk[k].currentTime
       /\ \A j \in 1..Len(queryDueTasks(db, tk[k].currentTime)) :
            queryDueTasks(db, tk[k].currentTime)[j].id # tk[k].task.id

\* C23: an update made by handleUpdateTask between a tick's queryDueTasks
\* and that tick's write-back of the same task is not lost: after the
\* write-back the columns the request changed (channel, type, cycle_config)
\* hold what the request stored.
C23_ApiUpdateNotLost ==
  \A k \in TickIds :
    ( /\ Finished(k) /\ tk[k].wrote
      /\ api.status = 200
      /\ api.target = tk[k].task.id
      /\ k \in api.pending )
    => \A f \in DOMAIN api.body \cap {"channel", "type", "cycle_config"} :
         db[tk[k].task.id][f] = api.row[f]

\* C24: a request handled by handleUpdateTask(taskId, body) changes at most
\* the stored task whose id is taskId, whatever the body holds: every other
\* row is as before, no row's id changes, and when no task has id taskId
\* the answer is 404 and the table is unchanged.
C24_UpdatesOnlyTaskId ==
  [][ api' # api
      => /\ DOMAIN db' = DOMAIN db
         /\ \A i \in DOMAIN db :
              /\ db'[i].id = i
              /\ i # api'.taskId => db'[i] = db[i]
         /\ api'.taskId \notin DOMAIN db
            => (api'.status = 404 /\ db' = db) ]_vars

\* the retries the loop of line 146 allows
RetriesAllowed ==
  IF kv.retry_config.present /\ kv.retry_config.max_retry >= 0
  THEN kv.retry_config.max_retry ELSE 0

\* C25: every tick that starts returns; in it each due task gets at most
\* 1 + max_retry attempts, and no task is dispatched again after the tick
\* has appended its record.
C25_EveryTickTerminates ==
  /\ [](\A k \in TickIds :
          /\ tk[k].retryCount <= RetriesAllowed
          /\ tk[k].sends <= 1 + tk[k].retryCount
          /\ \A i, j \in 1..Len(tk[k].dueTasks) :
               tk[k].dueTasks[i].id = tk[k].dueTasks[j].id => i = j
          /\ Dispatching(k) => LogsOf(k, tk[k].task.id) = {}
          /\ \A id \in TaskIds : Cardinality(LogsOf(k, id)) <= 1)
  /\ \A k \in TickIds :
       (tk[k].pc # "idle") ~> (tk[k].pc = "done" /\ tk[k].result = "returned")

C25_Witness ==
  \E k \in TickIds :
    /\ tk[k].pc = "done" /\ tk[k].result = "returned"
    /\ Len(tk[k].dueTasks) >= 2 /\ tk[k].idx > Len(tk[k].dueTasks)
    /\ tk[k].retryCount = RetriesAllowed /\ RetriesAllowed >= 2
    /\ tk[k].sends = 1

====
